---- MODULE Spec2Model ----
(***************************************************************************)
(* Model of the research pipeline of the Agentic Research Framework:       *)
(* ResearchOrchestrator.execute_research_pipeline and the agent methods    *)
(* it drives (planner task extraction, critique skip rule, synthesiser     *)
(* prompt formatting, citation merge, writer citation re-attachment).      *)
(*                                                                         *)
(* Texts are sequences of tokens.  A token is an atomic piece of text      *)
(* (a marker such as "Error:", a word, a punctuation sign, a blank); the   *)
(* Python string operations (startswith, in, split, strip) are modelled    *)
(* on token sequences.                                                     *)
(***************************************************************************)
EXTENDS Integers, Sequences, FiniteSets, TLC

(***************************************************************************)
(* Bounds of the model                                                     *)
(***************************************************************************)
MaxPlanLines == 2

\* longest citation list handed to the citation merge
MaxCitations == 2

\* the largest number of reference-style sections in an answer of the formatting
\* capability
MaxSections == 2

(***************************************************************************)
(* Text helpers (Python str operations on token sequences)                 *)
(***************************************************************************)
WS == {" ", "\n", "\n\n"}

Min(a, b) == IF a < b THEN a ELSE b

StartsWith(s, p) == Len(s) >= Len(p) /\ SubSeq(s, 1, Len(p)) = p

\* index of the first occurrence of sub in s at or after position from, 0 if none
FindFrom(s, sub, from) ==
    LET cand == {i \in from..(Len(s) - Len(sub) + 1) : SubSeq(s, i, i + Len(sub) - 1) = sub}
    IN IF cand = {} THEN 0 ELSE CHOOSE i \in cand : \A j \in cand : i <= j

Find(s, sub) == FindFrom(s, sub, 1)

Contains(s, sub) == Find(s, sub) # 0

RECURSIVE LStrip(_)
LStrip(s) == IF s # <<>> /\ Head(s) \in WS THEN LStrip(Tail(s)) ELSE s

RECURSIVE RStrip(_)
RStrip(s) == IF s # <<>> /\ s[Len(s)] \in WS THEN RStrip(SubSeq(s, 1, Len(s) - 1)) ELSE s

Strip(s) == RStrip(LStrip(s))

\* str.split(sep): the pieces of s between the non-overlapping occurrences of sep
RECURSIVE Split(_, _)
Split(s, sep) ==
    LET i == Find(s, sep)
    IN IF i = 0 THEN <<s>>
       ELSE <<SubSeq(s, 1, i - 1)>> \o Split(SubSeq(s, i + Len(sep), Len(s)), sep)

\* str.replace(old, new)
RECURSIVE Replace(_, _, _)
Replace(s, old, new) ==
    LET i == Find(s, old)
    IN IF i = 0 THEN s
       ELSE SubSeq(s, 1, i - 1) \o new \o Replace(SubSeq(s, i + Len(old), Len(s)), old, new)

\* sep.join(parts)
RECURSIVE Join(_, _)
Join(parts, sep) ==
    IF parts = <<>> THEN <<>>
    ELSE IF Len(parts) = 1 THEN parts[1]
    ELSE parts[1] \o sep \o Join(Tail(parts), sep)

\* dict.get(key, default) on a record
Get(d, key, default) == IF key \in DOMAIN d THEN d[key] ELSE default

\* str.lower() of one token (only the tokens of the model that have upper case)
LowerTok(t) ==
    CASE t = "[ResearchAgent]" -> "[researchagent]"
      [] t = "Search for:" -> "search for:"
      [] t = "What" -> "what"
      [] t = "Which" -> "which"
      [] t = "Source" -> "source"
      [] t = "Untitled" -> "untitled"
      [] t = "Alpha" -> "alpha"
      [] t = "Article from " -> "article from "
      [] t = "Here is" -> "here is"
      [] t = "Here's" -> "here's"
      [] OTHER -> t

Lower(s) == [i \in 1..Len(s) |-> LowerTok(s[i])]

ErrorPrefix == <<"Error:">>

(***************************************************************************)
(* utils/text_utils.py: extract_clarification_insights                     *)
(***************************************************************************)
Digits == {"0", "1", "2", "3", "4", "5", "6", "7", "8", "9"}

\* number of characters of a token
TokLen(t) ==
    CASE t = "Which" -> 5
      [] t = "What" -> 4
      [] t = "region" -> 6
      [] t = "period" -> 6
      [] t = "AI" -> 2
      [] t = "none" -> 4
      [] OTHER -> 1

StopWords == {"what", "when", "where", "which", "would", "could", "should", "about",
              "interested", "specific", "there", "these", "those"}

InsightsHeader == "Additional research guidance based on potential clarifications:\n"

\* str.lstrip(chars) / str.rstrip(chars) for a set of one-character tokens
RECURSIVE LStripSet(_, _)
LStripSet(s, cs) == IF s # <<>> /\ Head(s) \in cs THEN LStripSet(Tail(s), cs) ELSE s

RECURSIVE RStripSet(_, _)
RStripSet(s, cs) ==
    IF s # <<>> /\ s[Len(s)] \in cs THEN RStripSet(SubSeq(s, 1, Len(s) - 1), cs) ELSE s

\* str.split(): the maximal runs of non-blank tokens
RECURSIVE Words(_)
Words(s) ==
    LET t == LStrip(s)
        blanks == {i \in 1..Len(t) : t[i] \in WS}
        e == IF blanks = {} THEN Len(t) + 1 ELSE CHOOSE i \in blanks : \A j \in blanks : i <= j
    IN IF t = <<>> THEN <<>>
       ELSE <<SubSeq(t, 1, e - 1)>> \o Words(SubSeq(t, e, Len(t)))

RECURSIVE WordLen(_)
WordLen(w) == IF w = <<>> THEN 0 ELSE TokLen(Head(w)) + WordLen(Tail(w))

IsTerm(w) == WordLen(w) > 3 /\ ~(Len(w) = 1 /\ LowerTok(w[1]) \in StopWords)

RECURSIVE SelectTerms(_)
SelectTerms(ws) ==
    IF ws = <<>> THEN <<>>
    ELSE (IF IsTerm(Head(ws)) THEN <<Head(ws)>> ELSE <<>>) \o SelectTerms(Tail(ws))

\* the lines that start with a digit, '-' or '*', with the numbering stripped
RECURSIVE BulletQuestions(_)
BulletQuestions(lines) ==
    IF lines = <<>> THEN <<>>
    ELSE LET line == Strip(Head(lines))
         IN (IF line # <<>> /\ line[1] \in (Digits \cup {"-", "*"})
             THEN <<LStripSet(line, Digits \cup {".", "-", "*", " "})>>
             ELSE <<>>) \o BulletQuestions(Tail(lines))

\* [q.strip() + '?' for q in questions_text.split('?') if q.strip()]
RECURSIVE MarkQuestions(_)
MarkQuestions(parts) ==
    IF parts = <<>> THEN <<>>
    ELSE (IF Strip(Head(parts)) # <<>> THEN <<Strip(Head(parts)) \o <<"?">> >> ELSE <<>>)
         \o MarkQuestions(Tail(parts))

RECURSIVE InsightLines(_)
InsightLines(questions) ==
    IF questions = <<>> THEN <<>>
    ELSE LET q == RStripSet(Head(questions), {"?"})
             terms == SelectTerms(Words(q))
         IN (IF terms # <<>>
             THEN <<"- Consider exploring: ">> \o Join(terms, <<", ">>) \o <<"\n">>
             ELSE <<>>) \o InsightLines(Tail(questions))

extract_clarification_insights(clarification_questions) ==
    IF clarification_questions = <<>> \/ Strip(clarification_questions) = <<>> THEN <<>>
    ELSE LET questions_text == Strip(Replace(clarification_questions, <<"QUESTIONS:">>, <<>>))
             bullets == BulletQuestions(Split(questions_text, <<"\n">>))
             questions == IF bullets # <<>> THEN bullets
                          ELSE MarkQuestions(Split(questions_text, <<"?">>))
         IN <<InsightsHeader>> \o InsightLines(questions)

(***************************************************************************)
(* agents/planner_agent.py: extract_research_tasks_from_plan               *)
(***************************************************************************)
Quotes == {"'", "\""}

NoMatch == [ok |-> FALSE, val |-> <<>>]

\* position of the first token at or after i that is not a blank (\s*)
RECURSIVE SkipWS(_, _)
SkipWS(s, i) == IF i <= Len(s) /\ s[i] \in WS THEN SkipWS(s, i + 1) ELSE i

IsTagI(t) == LowerTok(t) = "[researchagent]"
IsSearchForI(t) == LowerTok(t) = "search for:"

\* "\.\s*\[ResearchAgent\]" matched with the dot at i: position after the tag, 0 if no match
AfterDotTag(line, i) ==
    IF i <= Len(line) /\ line[i] = "."
    THEN LET j == SkipWS(line, i + 1)
         IN IF j <= Len(line) /\ IsTagI(line[j]) THEN j + 1 ELSE 0
    ELSE 0

\* "Search for:\s*['\"](?P<query>.*?)['\"]" matched from position k (after \s*)
QuotedSearchAt(s, k0) ==
    LET k == SkipWS(s, k0)
    IN IF k <= Len(s) /\ IsSearchForI(s[k])
       THEN LET m == SkipWS(s, k + 1)
            IN IF m <= Len(s) /\ s[m] \in Quotes
               THEN LET closing == {n \in (m + 1)..Len(s) : s[n] \in Quotes}
                    IN IF closing = {} THEN NoMatch
                       ELSE LET n == CHOOSE x \in closing : \A y \in closing : x <= y
                            IN [ok |-> TRUE, val |-> SubSeq(s, m + 1, n - 1)]
               ELSE NoMatch
       ELSE NoMatch

\* re.search(specific_search_pattern, line, re.IGNORECASE)
specific_search_match(line) ==
    LET cand == {i \in 1..Len(line) :
                    AfterDotTag(line, i) # 0 /\ QuotedSearchAt(line, AfterDotTag(line, i)).ok}
    IN IF cand = {} THEN NoMatch
       ELSE LET i == CHOOSE x \in cand : \A y \in cand : x <= y
            IN QuotedSearchAt(line, AfterDotTag(line, i))

\* re.search(general_task_pattern, line, re.IGNORECASE)
general_task_match(line) ==
    LET cand == {i \in 1..Len(line) : AfterDotTag(line, i) # 0}
    IN IF cand = {} THEN NoMatch
       ELSE LET i == CHOOSE x \in cand : \A y \in cand : x <= y
            IN [ok |-> TRUE, val |-> SubSeq(line, SkipWS(line, AfterDotTag(line, i)), Len(line))]

\* re.match(r"Search for:\s*['\"](?P<query>.*?)['\"]", task_desc, re.IGNORECASE)
inner_search_match(task_desc) ==
    IF task_desc # <<>> /\ IsSearchForI(task_desc[1]) THEN QuotedSearchAt(task_desc, 1) ELSE NoMatch

\* the task description of one qualifying line
TaskOfLine(line) ==
    IF specific_search_match(line).ok THEN Strip(specific_search_match(line).val)
    ELSE IF general_task_match(line).ok
         THEN LET task_desc == Strip(general_task_match(line).val)
              IN IF inner_search_match(task_desc).ok
                 THEN Strip(inner_search_match(task_desc).val)
                 ELSE task_desc
         ELSE line

\* variant without the test of line 110: a qualifying line with an empty task
\* description contributes an empty task
RECURSIVE TasksOfLinesKeepingEmpty(_)
TasksOfLinesKeepingEmpty(plan_lines) ==
    IF plan_lines = <<>> THEN <<>>
    ELSE LET line == Strip(Head(plan_lines))
         IN (IF Contains(line, <<"[ResearchAgent]">>)
             THEN <<TaskOfLine(line)>>
             ELSE <<>>) \o TasksOfLinesKeepingEmpty(Tail(plan_lines))

\* lines 71-111: the tasks of the plan lines, in line order
RECURSIVE TasksOfLines(_)
TasksOfLines(plan_lines) ==
    IF plan_lines = <<>> THEN <<>>
    ELSE LET line == Strip(Head(plan_lines))
         IN (IF Contains(line, <<"[ResearchAgent]">>) /\ TaskOfLine(line) # <<>>
             THEN <<TaskOfLine(line)>>
             ELSE <<>>) \o TasksOfLines(Tail(plan_lines))

\* variant without the guard of lines 67-69
extract_research_tasks_unguarded(plan_text) ==
    TasksOfLines(Split(Strip(plan_text), <<"\n">>))

extract_research_tasks_from_plan(plan_text) ==
    IF plan_text = <<>> \/ StartsWith(plan_text, ErrorPrefix) THEN <<>>
    ELSE TasksOfLines(Split(Strip(plan_text), <<"\n">>))

(***************************************************************************)
(* agents/critique_agent.py: critique_document                             *)
(***************************************************************************)
DocPreviewLen == 100

SkipMarker == "Critique Skipped for Task"

\* variant that skips empty documents only
critique_is_skipped_empty_only(research_document_text) == research_document_text = <<>>

\* the guard of critique_document: no capability call for this document text
critique_is_skipped(research_document_text) ==
    research_document_text = <<>> \/ StartsWith(research_document_text, ErrorPrefix)

critique_skipped_text(research_task_description, research_document_text) ==
    <<SkipMarker, ": ">> \o research_task_description
    \o <<"\n", "Reason: Document content is empty or an error message from a previous step.",
         "\n", "Document Content Provided: ">>
    \o SubSeq(research_document_text, 1, Min(Len(research_document_text), DocPreviewLen))
    \o <<"...">>

critique_failed_text(research_task_description, details) ==
    <<"Error:", " ", "Could not critique document for task: ">> \o research_task_description
    \o <<". Details: ">> \o details

(***************************************************************************)
(* agents/synthesiser_agent.py                                             *)
(***************************************************************************)
NumTok(i) == <<"1", "2", "3", "4", "5", "6", "7", "8", "9">>[i]

SkippedStatus == "Critique Status: Skipped or Errored"

NA == <<"N/A">>

\* the block of one critiqued document, numbered i
FormatCritiqueItem(item, i) ==
    LET critique_content == Get(item, "critique_text", NA)
    IN <<"Critiqued Document ", NumTok(i), ":", "\n", "Original Task: ">>
       \o Get(item, "original_task", NA) \o <<"\n">>
       \o (IF StartsWith(critique_content, <<SkipMarker>>)
           THEN <<SkippedStatus, "\n", "Details: ">> \o critique_content \o <<"\n">>
           ELSE <<"Critique:", "\n">> \o critique_content \o <<"\n">>)
       \o <<"---", "\n">>

RECURSIVE FormatCritiqueItems(_, _)
FormatCritiqueItems(docs, i) ==
    IF i > Len(docs) THEN <<>>
    ELSE FormatCritiqueItem(docs[i], i) \o FormatCritiqueItems(docs, i + 1)

format_critiques_for_prompt(critiqued_documents) ==
    IF critiqued_documents = <<>> THEN <<"No critiqued documents were provided.", "\n">>
    ELSE FormatCritiqueItems(critiqued_documents, 1)

\* all("Critique Status: Skipped or Errored" in f_item for f_item in formatted.split("---"))
all_critiques_skipped(formatted_critiques_str) ==
    LET items == Split(formatted_critiques_str, <<"---">>)
    IN \A k \in 1..Len(items) : Contains(items[k], <<SkippedStatus>>)

NoDocsError == <<"Error:", " ", "No critiqued documents provided for synthesis.">>

AllSkippedError(formatted_critiques_str) ==
    <<"Error:", " ", "All document critiques were skipped or resulted in errors. Cannot synthesise from: ">>
    \o formatted_critiques_str

\* what synthesise_research returns before it reaches the capability call
\* (ok = FALSE: the capability is to be invoked with the formatted critiques)
synthesise_precheck(critiqued_documents) ==
    IF critiqued_documents = <<>> THEN [ok |-> TRUE, val |-> NoDocsError]
    ELSE IF all_critiques_skipped(format_critiques_for_prompt(critiqued_documents))
         THEN [ok |-> TRUE, val |-> AllSkippedError(format_critiques_for_prompt(critiqued_documents))]
         ELSE [ok |-> FALSE, val |-> format_critiques_for_prompt(critiqued_documents)]

(***************************************************************************)
(* orchestrator/research_orchestrator.py: citation merge of the synthesis  *)
(* phase (lines 319-372)                                                   *)
(***************************************************************************)
CitationsHeading == <<"## ", "Sources", " and Citations">>

NoCitationsNotice == "*No citations were found for this report.*"

UtmSource == <<"?", "utm_", "source=">>

IsTrackingParam(p) == StartsWith(p, <<"utm_">>) \/ StartsWith(p, <<"amp;", "utm_">>)

RECURSIVE NonTracking(_)
NonTracking(params) ==
    IF params = <<>> THEN <<>>
    ELSE (IF IsTrackingParam(Head(params)) THEN <<>> ELSE <<Head(params)>>)
         \o NonTracking(Tail(params))

\* lines 324-336: clean tracking parameters from a URL
CleanUrl(url) ==
    IF Contains(url, UtmSource) THEN Split(url, UtmSource)[1]
    ELSE IF Contains(url, <<"?">>)
            /\ (Contains(url, <<"&", "utm_">>) \/ Contains(url, <<"&", "amp;", "utm_">>))
         THEN LET base_url == Split(url, <<"?">>)[1]
                  params == Split(Split(url, <<"?">>)[2], <<"&">>)
                  non_tracking_params == NonTracking(params)
              IN IF non_tracking_params # <<>>
                 THEN base_url \o <<"?">> \o Join(non_tracking_params, <<"&">>)
                 ELSE base_url
         ELSE url

GenericTitles == {<<"source">>, <<"untitled", " ", "source">>, <<"untitled">>}

\* lines 339-350: the title recorded for a citation kept under clean_url
CitationTitle(title, clean_url) ==
    IF title = <<>> \/ Lower(title) \in GenericTitles
    THEN IF Contains(clean_url, <<":", "/", "/">>)
         THEN LET domain == Split(Split(clean_url, <<":", "/", "/">>)[2], <<"/">>)[1]
                  segs == Split(clean_url, <<"/">>)
                  path == Split(Join(SubSeq(segs, 4, Len(segs)), <<"/">>), <<"?">>)[1]
              IN IF path # <<>>
                 THEN <<"Article from ">> \o domain \o <<": ">> \o path
                 ELSE <<"Source", ": ">> \o domain
         ELSE title
    ELSE title

\* lines 320-355: the insertion-ordered dict unique_citations, as its list of values
RECURSIVE UniqueCitations(_, _)
UniqueCitations(all_citations, acc) ==
    IF all_citations = <<>> THEN acc
    ELSE LET citation == Head(all_citations)
             clean_url == CleanUrl(Get(citation, "url", <<>>))
             seen == \E k \in 1..Len(acc) : acc[k].url = clean_url
         IN UniqueCitations(Tail(all_citations),
                IF clean_url # <<>> /\ ~seen
                THEN Append(acc, [title |-> CitationTitle(Get(citation, "title",
                                                 <<"Untitled", " ", "Source">>), clean_url),
                                  url |-> clean_url])
                ELSE acc)

\* code point order of the tokens that occur in titles
CodeRank(t) ==
    CASE t = " " -> 1
      [] t = "/" -> 2
      [] t = ": " -> 3
      [] t = "?" -> 4
      [] t = "Alpha" -> 5
      [] t = "Article from " -> 6
      [] t = "Source" -> 7
      [] t = "Untitled" -> 8
      [] t = "a.com" -> 9
      [] t = "alpha" -> 10
      [] t = "article from " -> 11
      [] t = "b.org" -> 12
      [] t = "beta" -> 13
      [] t = "p" -> 14
      [] t = "q" -> 15
      [] t = "source" -> 16
      [] t = "untitled" -> 17
      [] t = "x=1" -> 18
      [] OTHER -> 19

\* Python's str "<" on two titles
RECURSIVE StrLess(_, _)
StrLess(a, b) ==
    IF b = <<>> THEN FALSE
    ELSE IF a = <<>> THEN TRUE
    ELSE IF Head(a) = Head(b) THEN StrLess(Tail(a), Tail(b))
    ELSE CodeRank(Head(a)) < CodeRank(Head(b))

\* variant that sorts on the title as written
SortKeyCaseSensitive(citation) == Get(citation, "title", <<>>)

\* line 360: the sort key, the lower-cased title
SortKey(citation) == Lower(Get(citation, "title", <<>>))

\* position at which a stable sort inserts c into the sorted list
RECURSIVE InsertSorted(_, _)
InsertSorted(sorted, c) ==
    IF sorted = <<>> THEN <<c>>
    ELSE IF StrLess(SortKey(c), SortKey(Head(sorted))) THEN <<c>> \o sorted
    ELSE <<Head(sorted)>> \o InsertSorted(Tail(sorted), c)

\* lines 358-361: sorted(unique_citations.values(), key=title.lower())
RECURSIVE SortCitations(_)
SortCitations(cs) ==
    IF cs = <<>> THEN <<>>
    ELSE InsertSorted(SortCitations(SubSeq(cs, 1, Len(cs) - 1)), cs[Len(cs)])

MergeCitations(all_citations) == SortCitations(UniqueCitations(all_citations, <<>>))

\* lines 366-369: the numbered markdown list
RECURSIVE RenderCitations(_, _)
RenderCitations(sorted_citations, i) ==
    IF i > Len(sorted_citations) THEN <<>>
    ELSE <<NumTok(i), ". [">> \o sorted_citations[i].title \o <<"](">>
         \o sorted_citations[i].url \o <<")", "\n">>
         \o RenderCitations(sorted_citations, i + 1)

\* variant without the "Error:" test of line 315: the section is attached to
\* error texts as well
AttachCitationsToErrors(synthesized_report, all_citations) ==
    IF all_citations # <<>>
    THEN synthesized_report \o <<"\n\n">> \o CitationsHeading \o <<"\n\n">>
         \o (IF MergeCitations(all_citations) # <<>>
             THEN RenderCitations(MergeCitations(all_citations), 1)
             ELSE <<NoCitationsNotice, "\n">>)
    ELSE synthesized_report

\* lines 315-372: the report with the citations section attached
AttachCitations(synthesized_report, all_citations) ==
    IF ~StartsWith(synthesized_report, ErrorPrefix) /\ all_citations # <<>>
    THEN synthesized_report \o <<"\n\n">> \o CitationsHeading \o <<"\n\n">>
         \o (IF MergeCitations(all_citations) # <<>>
             THEN RenderCitations(MergeCitations(all_citations), 1)
             ELSE <<NoCitationsNotice, "\n">>)
    ELSE synthesized_report

\* lines 281-287: all citations of the critiqued documents, in document order
RECURSIVE CollectCitations(_)
CollectCitations(critiqued_documents) ==
    IF critiqued_documents = <<>> THEN <<>>
    ELSE (IF "citations" \in DOMAIN Head(critiqued_documents)
          THEN Get(Head(critiqued_documents), "citations", <<>>) ELSE <<>>)
         \o CollectCitations(Tail(critiqued_documents))

\* lines 294-303: the documents handed to the synthesiser
RECURSIVE DocsForSynthesis(_)
DocsForSynthesis(critiqued_documents) ==
    IF critiqued_documents = <<>> THEN <<>>
    ELSE LET doc == Head(critiqued_documents)
         IN (IF "critique" \in DOMAIN doc /\ "original" \in DOMAIN doc
             THEN <<[content |-> doc.critique,
                     original_task |-> Get(doc, "task", <<"Unknown task">>),
                     original_content |-> doc.original]>>
             ELSE <<>>) \o DocsForSynthesis(Tail(critiqued_documents))

(***************************************************************************)
(* agents/writer_agent.py: format_report_as_markdown                       *)
(***************************************************************************)
EmptyReportNotice ==
    <<"Notice: No content was provided for the synthesized report. The research process may have encountered an issue or yielded no information.">>

\* lines 45-57: the text handed to the formatting capability and the citations
\* section split off it
WriterSplit(synthesized_report_text) ==
    LET text == IF synthesized_report_text = <<>> THEN EmptyReportNotice
                ELSE synthesized_report_text
    IN IF Contains(text, CitationsHeading)
       THEN LET report_parts == Split(text, CitationsHeading)
            IN [body |-> Strip(report_parts[1]),
                citations_section |-> IF Len(report_parts) > 1
                                      THEN CitationsHeading \o report_parts[2] ELSE <<>>]
       ELSE [body |-> text, citations_section |-> <<>>]

\* the code fence tokens (three backquotes) of markdown
Fence == <<"<fence>">>

FenceMarkdown == <<"<fence>markdown">>

ResponsePrefixes == {"here is", "i've formatted", "the following is", "here's"}

\* lines 115-149 (_clean_json_format): a JSON object with a content field is
\* unwrapped, a markdown code fence is unwrapped, a leading "Here is ...:" is cut
clean_json_format(text) ==
    LET t == Strip(text)
    IN IF Len(t) >= 3 /\ t[1] = "{\"content\": \"" /\ t[Len(t)] = "\"}"
       THEN SubSeq(t, 2, Len(t) - 1)
       ELSE IF Contains(text, FenceMarkdown)
               /\ FindFrom(text, Fence, Find(text, FenceMarkdown) + 1) # 0
            THEN Strip(SubSeq(text, Find(text, FenceMarkdown) + 1,
                       FindFrom(text, Fence, Find(text, FenceMarkdown) + 1) - 1))
            ELSE IF text # <<>> /\ LowerTok(text[1]) \in ResponsePrefixes
                    /\ Find(text, <<":">>) # 0
                    /\ (Find(text, <<"\n">>) = 0 \/ Find(text, <<":">>) < Find(text, <<"\n">>))
                 THEN LStrip(SubSeq(text, Find(text, <<":">>) + 1, Len(text)))
                 ELSE text

reference_sections ==
    << <<"## ", "References">>, <<"## ", "Sources">>, <<"## ", "Bibliography">>, CitationsHeading >>

\* lines 88-93: cut the text at the first listed section heading that occurs in it
RECURSIVE RemoveReferenceSection(_, _)
RemoveReferenceSection(clean_text, k) ==
    IF k > Len(reference_sections) THEN clean_text
    ELSE IF Contains(clean_text, reference_sections[k])
         THEN Strip(Split(clean_text, reference_sections[k])[1])
         ELSE RemoveReferenceSection(clean_text, k + 1)

\* lines 71-101: the document returned when the formatting capability answers
WriterSuccess(result_text, citations_section) ==
    LET clean_text == clean_json_format(Strip(result_text))
    IN IF citations_section # <<>>
       THEN RemoveReferenceSection(clean_text, 1) \o <<"\n\n">> \o citations_section
       ELSE clean_text

\* lines 103-113: the document returned when the formatting capability raises
WriterFallback(user_query, body, details, citations_section) ==
    LET formatted_text ==
            <<"# Report for: ">> \o user_query
            \o <<"\n\n", "## Error During Report Formatting", "\n\n",
                 "An error occurred while formatting the report: ">> \o details
            \o <<"\n\n", "**Raw Synthesized Text (if available):**", "\n", "<fence>", "\n">>
            \o body \o <<"\n", "<fence>">>
    IN IF citations_section # <<>>
       THEN formatted_text \o <<"\n\n">> \o citations_section
       ELSE formatted_text

\* the outcome of the formatting capability: raised with details, or a text
format_report_as_markdown(user_query, synthesized_report_text, fmt) ==
    LET w == WriterSplit(synthesized_report_text)
    IN IF fmt.raised
       THEN WriterFallback(user_query, w.body, fmt.text, w.citations_section)
       ELSE WriterSuccess(fmt.text, w.citations_section)

(***************************************************************************)
(* agents/research_agent.py: perform_research_task                         *)
(***************************************************************************)
ResearchFailedText(research_task_for_llm, details) ==
    <<"Error:", " ", "Could not conduct research synthesis for task: ">> \o research_task_for_llm
    \o <<". Details: ">> \o details

\* variant whose failure text is the bare exception text
perform_research_task_bare_failure(research_task_for_llm, web, llm) ==
    IF llm.raised THEN [text |-> llm.text, citations |-> <<>>]
    ELSE [text |-> Strip(llm.text),
          citations |-> IF web.success THEN web.citations ELSE <<>>]

\* variant that returns the citations of the web search with the failure text
failure_citations_kept(web_citations) == web_citations

\* line 224: the citations returned when the text generation raised
failure_citations(web_citations) == <<>>

\* web: the outcome of the web search (success = more than 50 characters of
\* text came back); llm: the outcome of the text generation call
perform_research_task(research_task_for_llm, web, llm) ==
    LET web_citations == IF web.success THEN web.citations ELSE <<>>
    IN IF llm.raised
       THEN [text |-> ResearchFailedText(research_task_for_llm, llm.text),
             citations |-> failure_citations(web_citations)]
       ELSE [text |-> Strip(llm.text), citations |-> web_citations]

(***************************************************************************)
(* Inputs: what the capabilities and the user may answer                   *)
(***************************************************************************)
NoneValue == <<"<None>">>

Ok(t) == [raised |-> FALSE, text |-> t]
Raised(details) == [raised |-> TRUE, text |-> details]

InitialQueries == {<<"capital of France">>}

ClarifyingQuestionsOutcomes ==
    {<<"1", ".", " ", "Which", " ", "region", "?">>,
     <<"Error:", " ", "Could not generate clarifying questions.">>}

UserAnswers == {<<>>, <<"Europe">>}

ErrorPlan == <<"Error:", " ", "Could not generate plan.">>

PlanLines ==
    {<<"1", ".", " ", "[ResearchAgent]", " ", "Search for:", " ", "'", "capital of France", "'">>,
     <<"2", ".", " ", "[ResearchAgent]", " ", "Summarize drug discovery trends">>,
     <<"Plan overview">>}

SeqsUpTo(S, n) == UNION {[1..k -> S] : k \in 0..n}

PlanOutcomes == {ErrorPlan} \cup {Join(ls, <<"\n">>) : ls \in SeqsUpTo(PlanLines, MaxPlanLines)}

ClarityReplies ==
    {<<"CLARIFICATION_NOT_NEEDED">>,
     <<"QUESTIONS:", "\n", "1", ".", " ", "Which", " ", "region", "?">>,
     <<"QUESTIONS:", " ", "What", " ", "AI", "?">>,
     <<"Error:", " ", "Could not process clarification.">>,
     <<"Perhaps">>}

Cite(title, url) == [title |-> title, url |-> url]

UrlA == <<"http", ":", "/", "/", "a.com", "/", "p">>

WebSearchOutcomes ==
    {[success |-> TRUE, citations |-> <<>>],
     [success |-> TRUE, citations |-> <<Cite(<<"beta">>, UrlA \o UtmSource \o <<"foo">>),
                                         Cite(<<"Alpha">>, UrlA)>>],
     [success |-> TRUE, citations |-> <<Cite(<<"Source">>, <<>>)>>],
     [success |-> FALSE, citations |-> <<Cite(<<"Alpha">>, UrlA)>>]}

ResearchLLMOutcomes == {Ok(<<"Paris is the capital.">>), Ok(<<>>), Raised(<<"timeout">>)}

CritiqueOutcomes == {Ok(<<"Relevance to Task: High">>), Raised(<<"timeout">>)}

SynthesisOutcomes == {Ok(<<"Paris is the capital of France.">>), Raised(<<"timeout">>)}

FormatterOutcomes ==
    {Ok(<<"# Report", "\n", "Paris">>), Ok(<<"# Report", "\\n", "Paris">>), Raised(<<"timeout">>)}

(***************************************************************************)
(* State of one run of ResearchOrchestrator.execute_research_pipeline      *)
(***************************************************************************)
VARIABLES
    pc,                      \* the statement of execute_research_pipeline that runs next
    initial_query,
    current_query,
    clarification_insights,
    current_plan,            \* what _handle_planning_phase returned
    research_tasks,
    research_outputs,
    critiqued_documents,
    synthesized_report,
    error_message,           \* the message passed to _handle_error
    final_report,
    outcome,                 \* "running", "returned" or "raised"
    result,                  \* the dict returned by the pipeline
    raised,                  \* the exception that left the pipeline
    calls,                   \* every invocation of a collaborator, in order, with its arguments
    phases                   \* the phase handlers entered, in order

vars == <<pc, initial_query, current_query, clarification_insights, current_plan,
          research_tasks, research_outputs, critiqued_documents, synthesized_report,
          error_message, final_report, outcome, result, raised, calls, phases>>

Call(cap, a1, a2, a3) == [cap |-> cap, a1 |-> a1, a2 |-> a2, a3 |-> a3]

NoResult == [initial_query |-> <<>>, error |-> NoneValue, final_report |-> <<>>,
             file_paths |-> <<>>]

Init ==
    /\ pc = "Clarification"
    /\ initial_query \in InitialQueries
    /\ current_query = <<>>
    /\ clarification_insights = <<>>
    /\ current_plan = [isTuple |-> FALSE, text |-> <<>>, insights |-> <<>>]
    /\ research_tasks = <<>>
    /\ research_outputs = <<>>
    /\ critiqued_documents = <<>>
    /\ synthesized_report = <<>>
    /\ error_message = <<>>
    /\ final_report = <<>>
    /\ outcome = "running"
    /\ result = NoResult
    /\ raised = ""
    /\ calls = <<>>
    /\ phases = <<>>

(***************************************************************************)
(* The phase handlers of ResearchOrchestrator                              *)
(***************************************************************************)
NoTasksMessage ==
    <<"No research tasks were identified/executed. Cannot proceed to critique.">>

NoCritiquesMessage ==
    <<"No documents were successfully critiqued. Cannot proceed to synthesis.">>

ClarificationBlock == <<"\n\nAdditional clarifications provided by user:\n">>

\* variant without the test for blank answers: the block is always appended
ClarifiedQueryAlways(query, user_clarifications) ==
    query \o ClarificationBlock \o user_clarifications

\* lines 133-136: the query carried into planning
ClarifiedQuery(query, user_clarifications) ==
    IF Strip(user_clarifications) # <<>>
    THEN query \o ClarificationBlock \o user_clarifications
    ELSE query

\* _handle_clarification_phase (lines 114-140)
ClarificationPhase ==
    /\ pc = "Clarification"
    /\ \E clarifying_questions \in ClarifyingQuestionsOutcomes, user_clarifications \in UserAnswers :
          LET asked == Call("generate_clarifying_questions", initial_query, <<>>, <<>>)
          IN IF StartsWith(clarifying_questions, ErrorPrefix)
             THEN /\ current_query' = initial_query
                  /\ calls' = Append(calls, asked)
             ELSE /\ current_query' = ClarifiedQuery(initial_query, user_clarifications)
                  /\ calls' = calls \o <<asked,
                         Call("get_clarification_responses", clarifying_questions, <<>>, <<>>)>>
    /\ clarification_insights' = <<>>
    /\ phases' = Append(phases, "Clarify")
    /\ pc' = "Planning"
    /\ UNCHANGED <<initial_query, current_plan, research_tasks, research_outputs,
                   critiqued_documents, synthesized_report, error_message, final_report,
                   outcome, result, raised>>

PlanStr(plan) == [isTuple |-> FALSE, text |-> plan, insights |-> <<>>]

\* lines 163-184: what _handle_planning_phase returns for a plan that is not an
\* error, given the reply of the plan clarity check
PlanningReturn(initial_plan_str, clarification_output) ==
    IF Contains(clarification_output, <<"CLARIFICATION_NOT_NEEDED">>) THEN PlanStr(initial_plan_str)
    ELSE IF StartsWith(clarification_output, <<"QUESTIONS:">>)
         THEN LET new_insights == extract_clarification_insights(clarification_output)
              IN IF new_insights # <<>>
                 THEN [isTuple |-> TRUE, text |-> initial_plan_str, insights |-> new_insights]
                 ELSE PlanStr(initial_plan_str)
         ELSE PlanStr(initial_plan_str)

\* variant without the early return of line 158: the clarity check always runs
PlanningCallsNoEarlyReturn(query, initial_plan_str) ==
    <<Call("generate_plan", query, <<>>, <<>>),
      Call("clarify_query", query, initial_plan_str, <<>>)>>

\* lines 153-161: the capabilities _handle_planning_phase invokes
PlanningCalls(query, initial_plan_str) ==
    IF StartsWith(initial_plan_str, ErrorPrefix)
    THEN <<Call("generate_plan", query, <<>>, <<>>)>>
    ELSE <<Call("generate_plan", query, <<>>, <<>>),
           Call("clarify_query", query, initial_plan_str, <<>>)>>

\* lines 157-184: what _handle_planning_phase returns
PlanningResult(initial_plan_str, clarification_output) ==
    IF StartsWith(initial_plan_str, ErrorPrefix) THEN PlanStr(initial_plan_str)
    ELSE PlanningReturn(initial_plan_str, clarification_output)

\* _handle_planning_phase (lines 142-184) and the test of its result by
\* execute_research_pipeline (lines 76-78); a tuple has no startswith
PlanningPhase ==
    /\ pc = "Planning"
    /\ \E initial_plan_str \in PlanOutcomes, clarification_output \in ClarityReplies :
          LET returned == PlanningResult(initial_plan_str, clarification_output)
          IN /\ calls' = calls \o PlanningCalls(current_query, initial_plan_str)
             /\ current_plan' = returned
             /\ IF returned.isTuple
                THEN /\ pc' = "Done"
                     /\ outcome' = "raised"
                     /\ raised' = "AttributeError"
                     /\ UNCHANGED error_message
                ELSE IF StartsWith(returned.text, ErrorPrefix)
                     THEN /\ pc' = "Error"
                          /\ error_message' = returned.text
                          /\ UNCHANGED <<outcome, raised>>
                     ELSE /\ pc' = "Research"
                          /\ UNCHANGED <<error_message, outcome, raised>>
    /\ phases' = Append(phases, "Plan")
    /\ UNCHANGED <<initial_query, current_query, clarification_insights, research_tasks,
                   research_outputs, critiqued_documents, synthesized_report, final_report,
                   result>>

\* variant without the test for an empty task list
ResearchHaltsNever(tasks) == FALSE

\* lines 200-201 and 82-84: no task, no research output, the pipeline halts
ResearchHalts(tasks) == tasks = <<>>

\* _handle_research_phase, lines 197-203, and lines 82-84 of the pipeline
ResearchPhaseBegin ==
    /\ pc = "Research"
    /\ LET tasks == extract_research_tasks_from_plan(current_plan.text)
       IN /\ research_tasks' = tasks
          /\ IF ResearchHalts(tasks)
             THEN /\ pc' = "Error"
                  /\ error_message' = NoTasksMessage
             ELSE /\ pc' = "ResearchTask"
                  /\ UNCHANGED error_message
    /\ calls' = Append(calls, Call("extract_research_tasks_from_plan", current_plan.text, <<>>, <<>>))
    /\ phases' = Append(phases, "Research")
    /\ UNCHANGED <<initial_query, current_query, clarification_insights, current_plan,
                   research_outputs, critiqued_documents, synthesized_report, final_report,
                   outcome, result, raised>>

\* variant that walks the task list from its end
NextTaskFromEnd(tasks, outputs) == tasks[Len(tasks) - Len(outputs)]

\* line 205: the task of the next iteration of "for task in research_tasks"
NextTask(tasks, outputs) == tasks[Len(outputs) + 1]

\* variant that critiques each result inside the research loop
ResearchTaskCritiqueInline ==
    /\ pc = "ResearchTask"
    /\ Len(research_outputs) < Len(research_tasks)
    /\ LET task == NextTask(research_tasks, research_outputs)
       IN \E web \in WebSearchOutcomes, llm \in ResearchLLMOutcomes :
             LET res == perform_research_task(task, web, llm)
             IN /\ research_outputs' = Append(research_outputs,
                       [task |-> task, content |-> res.text, citations |-> res.citations])
                /\ calls' = calls \o <<Call("perform_research_task", task, NoneValue,
                                            clarification_insights),
                                       Call("critique_document", task, res.text, <<>>)>>
    /\ pc' = IF Len(research_outputs) + 1 = Len(research_tasks) THEN "Critique" ELSE "ResearchTask"
    /\ UNCHANGED <<initial_query, current_query, clarification_insights, current_plan,
                   research_tasks, critiqued_documents, synthesized_report, error_message,
                   final_report, outcome, result, raised, phases>>

\* _handle_research_phase, one iteration of the loop (lines 205-235)
ResearchTask ==
    /\ pc = "ResearchTask"
    /\ Len(research_outputs) < Len(research_tasks)
    /\ LET task == NextTask(research_tasks, research_outputs)
       IN /\ \E web \in WebSearchOutcomes, llm \in ResearchLLMOutcomes :
                LET res == perform_research_task(task, web, llm)
                IN research_outputs' = Append(research_outputs,
                       [task |-> task, content |-> res.text, citations |-> res.citations])
          /\ calls' = Append(calls, Call("perform_research_task", task, NoneValue,
                                         clarification_insights))
    /\ pc' = IF Len(research_outputs) + 1 = Len(research_tasks) THEN "Critique" ELSE "ResearchTask"
    /\ UNCHANGED <<initial_query, current_query, clarification_insights, current_plan,
                   research_tasks, critiqued_documents, synthesized_report, error_message,
                   final_report, outcome, result, raised, phases>>

\* variant that halts when every critique was skipped
CritiqueHaltsWhenAllSkipped(docs) ==
    \A k \in 1..Len(docs) : docs[k].critique[1] = SkipMarker

\* lines 88-90: no critiqued document, the pipeline halts
CritiqueHalts(docs) == docs = <<>>

\* variant that starts every critiqued document with an empty citation list
doc_citations_dropped(res_output) == <<>>

\* line 252: the citations carried from a research output to its critiqued document
doc_citations(res_output) == Get(res_output, "citations", <<>>)

\* _handle_critique_phase, one iteration of the loop (lines 249-264) with
\* CritiqueAgent.critique_document, and lines 88-90 of the pipeline after the
\* last iteration
CritiqueTask ==
    /\ pc = "Critique"
    /\ LET res_output == research_outputs[Len(critiqued_documents) + 1]
           task_desc == res_output.task
           doc_text == res_output.content
           last == Len(critiqued_documents) + 1 = Len(research_outputs)
       IN /\ \E capability \in CritiqueOutcomes :
                LET critique ==
                        IF critique_is_skipped(doc_text)
                        THEN critique_skipped_text(task_desc, doc_text)
                        ELSE IF capability.raised
                             THEN critique_failed_text(task_desc, capability.text)
                             ELSE Strip(capability.text)
                IN critiqued_documents' = Append(critiqued_documents,
                       [task |-> task_desc, original |-> doc_text, critique |-> critique,
                        citations |-> doc_citations(res_output)])
          /\ calls' = IF critique_is_skipped(doc_text) THEN calls
                      ELSE Append(calls, Call("critique_document", task_desc, doc_text, <<>>))
          /\ IF ~last
             THEN UNCHANGED <<pc, error_message>>
             ELSE IF CritiqueHalts(critiqued_documents')
                  THEN /\ pc' = "Error"
                       /\ error_message' = NoCritiquesMessage
                  ELSE /\ pc' = "Synthesis"
                       /\ UNCHANGED error_message
    /\ phases' = IF critiqued_documents = <<>> THEN Append(phases, "Critique") ELSE phases
    /\ UNCHANGED <<initial_query, current_query, clarification_insights, current_plan,
                   research_tasks, research_outputs, synthesized_report, final_report,
                   outcome, result, raised>>

SynthesisFailedText(details) ==
    <<"Error:", " ", "Could not synthesise research. Details: ">> \o details

\* _handle_synthesis_phase (lines 268-377) with SynthesiserAgent.synthesise_research,
\* and lines 94-95 of the pipeline
SynthesisPhase ==
    /\ pc = "Synthesis"
    /\ LET all_citations == CollectCitations(critiqued_documents)
           docs_for_synthesis == DocsForSynthesis(critiqued_documents)
           pre == synthesise_precheck(docs_for_synthesis)
       IN \E capability \in SynthesisOutcomes :
             LET answer == IF docs_for_synthesis = <<>> THEN NoDocsError
                           ELSE IF pre.ok THEN pre.val
                           ELSE IF capability.raised THEN SynthesisFailedText(capability.text)
                           ELSE Strip(capability.text)
                 report == IF docs_for_synthesis = <<>> THEN answer
                           ELSE AttachCitations(answer, all_citations)
             IN /\ synthesized_report' = report
                /\ calls' = IF docs_for_synthesis = <<>> \/ pre.ok THEN calls
                            ELSE Append(calls, Call("synthesise_research", current_query,
                                                    pre.val, <<>>))
                /\ IF StartsWith(report, ErrorPrefix)
                   THEN /\ pc' = "Error"
                        /\ error_message' = report
                   ELSE /\ pc' = "Writing"
                        /\ UNCHANGED error_message
    /\ phases' = Append(phases, "Synthesize")
    /\ UNCHANGED <<initial_query, current_query, clarification_insights, current_plan,
                   research_tasks, research_outputs, critiqued_documents, final_report,
                   outcome, result, raised>>

\* _handle_writing_phase (lines 379-398), the formatting capability answering
\* with one of outcomes
WritingWith(outcomes) ==
    /\ pc = "Writing"
    /\ \E fmt \in outcomes :
          final_report' = format_report_as_markdown(initial_query, synthesized_report, fmt)
    /\ calls' = Append(calls, Call("format_report_as_markdown", initial_query,
                                   WriterSplit(synthesized_report).body, <<>>))
    /\ phases' = Append(phases, "Write")
    /\ pc' = "Save"
    /\ UNCHANGED <<initial_query, current_query, clarification_insights, current_plan,
                   research_tasks, research_outputs, critiqued_documents, synthesized_report,
                   error_message, outcome, result, raised>>

WritingPhase == WritingWith(FormatterOutcomes)

\* variant that saves the report as it is
UnescapeNothing(report) == report

\* final_report.replace('\\n', '\n'): a backslash followed by n becomes a line break
Unescape(report) == Replace(report, <<"\\n">>, <<"\n">>)

FilePaths == <<"reports/report.md">>

\* lines 100-112 of the pipeline: save_report_to_file, then return
SaveAndReturn ==
    /\ pc = "Save"
    /\ calls' = Append(calls, Call("save_report_to_file", Unescape(final_report),
                                   initial_query, <<>>))
    /\ \E saved \in BOOLEAN :
          IF saved
          THEN /\ outcome' = "returned"
               /\ result' = [initial_query |-> initial_query, error |-> NoneValue,
                             final_report |-> final_report, file_paths |-> FilePaths]
               /\ UNCHANGED raised
          ELSE /\ outcome' = "raised"
               /\ raised' = "IOError"
               /\ UNCHANGED result
    /\ pc' = "Done"
    /\ UNCHANGED <<initial_query, current_query, clarification_insights, current_plan,
                   research_tasks, research_outputs, critiqued_documents, synthesized_report,
                   error_message, final_report, phases>>

\* _handle_error (lines 400-430)
HandleError ==
    /\ pc = "Error"
    /\ \E fmt \in FormatterOutcomes, saved \in BOOLEAN :
          LET final_markdown_report ==
                  format_report_as_markdown(initial_query, error_message, fmt)
          IN /\ final_report' = final_markdown_report
             /\ calls' = calls \o
                    <<Call("format_report_as_markdown", initial_query,
                           WriterSplit(error_message).body, <<>>),
                      Call("save_report_to_file", Unescape(final_markdown_report),
                           initial_query, <<>>)>>
             /\ IF saved
                THEN /\ outcome' = "returned"
                     /\ result' = [initial_query |-> initial_query, error |-> error_message,
                                   final_report |-> final_markdown_report,
                                   file_paths |-> FilePaths]
                     /\ UNCHANGED raised
                ELSE /\ outcome' = "raised"
                     /\ raised' = "IOError"
                     /\ UNCHANGED result
    /\ phases' = Append(phases, "Error")
    /\ pc' = "Done"
    /\ UNCHANGED <<initial_query, current_query, clarification_insights, current_plan,
                   research_tasks, research_outputs, critiqued_documents, synthesized_report,
                   error_message>>

(***************************************************************************)
(* The synthesis phase on the citations of one researched task: the run has *)
(* reached the entry of _handle_synthesis_phase with one critiqued document *)
(* whose citations are the ones the web search returned                     *)
(***************************************************************************)
CitationTitles == {<<>>, <<"Source">>, <<"alpha">>, <<"Alpha">>}

UrlNoPath == <<"http", ":", "/", "/", "a.com">>

CitationUrls ==
    {<<>>,
     UrlA,
     UrlA \o UtmSource \o <<"foo">>,
     UrlA \o <<"?", "utm_", "medium=e">>,
     UrlA \o <<"?", "x=1", "&", "utm_", "medium=e">>,
     UrlA \o <<"?", "x=1", "&", "amp;", "utm_", "medium=e">>,
     UrlA \o <<"?", "x=1", "&", "utm_", "medium=e">> \o UtmSource \o <<"foo">>,
     UrlNoPath \o <<"?", "x=1">>,
     <<"a.com", "/", "p">>}

CitationLists ==
    SeqsUpTo({Cite(title, url) : title \in CitationTitles, url \in CitationUrls}, MaxCitations)

SynthesisEntryPlan == <<"2", ".", " ", "[ResearchAgent]", " ", "Summarize drug discovery trends">>

SynthesisEntryText == <<"Paris is the capital.">>

SynthesisEntryCritique == <<"Relevance to Task: High">>

\* the state of a run at the entry of the synthesis phase: the clarifier
\* answered with an error, the plan holds one task, the clarity check needed
\* no clarification, the task was researched and its document critiqued
InitCitations ==
    /\ pc = "Synthesis"
    /\ initial_query \in InitialQueries
    /\ current_query = initial_query
    /\ clarification_insights = <<>>
    /\ current_plan = PlanStr(SynthesisEntryPlan)
    /\ research_tasks = extract_research_tasks_from_plan(SynthesisEntryPlan)
    /\ \E citations \in CitationLists :
          /\ research_outputs =
                 <<[task |-> research_tasks[1], content |-> SynthesisEntryText,
                    citations |-> citations]>>
          /\ critiqued_documents =
                 <<[task |-> research_tasks[1], original |-> SynthesisEntryText,
                    critique |-> SynthesisEntryCritique, citations |-> citations]>>
    /\ synthesized_report = <<>>
    /\ error_message = <<>>
    /\ final_report = <<>>
    /\ outcome = "running"
    /\ result = NoResult
    /\ raised = ""
    /\ calls = <<Call("generate_clarifying_questions", initial_query, <<>>, <<>>),
                 Call("generate_plan", initial_query, <<>>, <<>>),
                 Call("clarify_query", initial_query, SynthesisEntryPlan, <<>>),
                 Call("extract_research_tasks_from_plan", SynthesisEntryPlan, <<>>, <<>>),
                 Call("perform_research_task", research_tasks[1], NoneValue, <<>>),
                 Call("critique_document", research_tasks[1], SynthesisEntryText, <<>>)>>
    /\ phases = <<"Clarify", "Plan", "Research", "Critique">>

NextCitations == SynthesisPhase

SpecCitations == InitCitations /\ [][NextCitations]_vars

(***************************************************************************)
(* The writing phase on its own: the run is at the entry of the writing    *)
(* phase, the synthesis capability may have written a citations heading of *)
(* its own, and the formatting capability may answer with reference-style  *)
(* sections                                                                *)
(***************************************************************************)
\* what the synthesis capability may answer
SynthesisNarratives ==
    {<<"Paris is the capital of France.">>,
     <<"Paris is the capital of France.", "\n\n">> \o CitationsHeading
        \o <<"\n\n", "See the critiques.">>}

WriterCitationLists ==
    {<<>>, <<Cite(<<"Alpha">>, UrlA)>>, <<Cite(<<"Alpha">>, UrlA), Cite(<<"beta">>, UrlNoPath)>>}

\* a reference-style section of an answer of the formatting capability
ReferenceSection(heading) == <<"\n">> \o heading \o <<"\n", "1", ".", " ", "a.com">>

\* the headings of the sections: the reference-style ones and another one
SectionHeadings ==
    {reference_sections[k] : k \in 1..Len(reference_sections)} \cup {<<"## ", "Conclusion">>}

ReferenceSectionLists == SeqsUpTo(SectionHeadings, MaxSections)

FormattedNarratives == {<<"# Report", "\n", "Paris">>, <<"# Capital", "\n", "Paris">>}

RECURSIVE WithReferenceSections(_, _)
WithReferenceSections(text, headings) ==
    IF headings = <<>> THEN text
    ELSE WithReferenceSections(text \o ReferenceSection(Head(headings)), Tail(headings))

WriterAnswers ==
    {Raised(<<"timeout">>)} \cup
    {Ok(WithReferenceSections(narrative, headings)) :
        narrative \in FormattedNarratives, headings \in ReferenceSectionLists}

\* the state of a run at the entry of the writing phase: as at the entry of
\* the synthesis phase, and the synthesis capability has answered
InitWriter ==
    /\ pc = "Writing"
    /\ initial_query \in InitialQueries
    /\ current_query = initial_query
    /\ clarification_insights = <<>>
    /\ current_plan = PlanStr(SynthesisEntryPlan)
    /\ research_tasks = extract_research_tasks_from_plan(SynthesisEntryPlan)
    /\ \E citations \in WriterCitationLists :
          /\ research_outputs =
                 <<[task |-> research_tasks[1], content |-> SynthesisEntryText,
                    citations |-> citations]>>
          /\ critiqued_documents =
                 <<[task |-> research_tasks[1], original |-> SynthesisEntryText,
                    critique |-> SynthesisEntryCritique, citations |-> citations]>>
    /\ \E narrative \in SynthesisNarratives :
          synthesized_report =
              AttachCitations(Strip(narrative), CollectCitations(critiqued_documents))
    /\ error_message = <<>>
    /\ final_report = <<>>
    /\ outcome = "running"
    /\ result = NoResult
    /\ raised = ""
    /\ calls = <<Call("generate_clarifying_questions", initial_query, <<>>, <<>>),
                 Call("generate_plan", initial_query, <<>>, <<>>),
                 Call("clarify_query", initial_query, SynthesisEntryPlan, <<>>),
                 Call("extract_research_tasks_from_plan", SynthesisEntryPlan, <<>>, <<>>),
                 Call("perform_research_task", research_tasks[1], NoneValue, <<>>),
                 Call("critique_document", research_tasks[1], SynthesisEntryText, <<>>),
                 Call("synthesise_research", current_query,
                      synthesise_precheck(DocsForSynthesis(critiqued_documents)).val, <<>>)>>
    /\ phases = <<"Clarify", "Plan", "Research", "Critique", "Synthesize">>

WritingPhaseAnyAnswer == WritingWith(WriterAnswers)

NextWriter == WritingPhaseAnyAnswer

SpecWriter == InitWriter /\ [][NextWriter]_vars

(***************************************************************************)
(* PlannerAgent.extract_research_tasks_from_plan called on its own: the    *)
(* plan text is any text of up to MaxPlanLines lines, or an error text     *)
(***************************************************************************)
ExtractorLines ==
    PlanLines \cup
    {<<"-", " ", "[ResearchAgent]", " ", "Summarize drug discovery trends">>,
     <<"1", ".", " ", "[ResearchAgent]", " ", "Search for:", " ", "\"", "what", "'", "s new", "\"">>,
     <<" ", "2", ".", " ", "[ResearchAgent]", " ", "search for:", " ", "\"", "capital of France",
       "\"", " ">>,
     <<"2", ".", " ", "[ResearchAgent]">>,
     <<"1", ".", " ", "[ResearchAgent]", " ", "Search for:", " ", "'", "'">>,
     <<"3", ".", " ", "[WriterAgent]", " ", "Write the report">>}

ExtractorPlans ==
    {<<>>, ErrorPlan, ErrorPlan \o <<"\n", "2", ".", " ", "[ResearchAgent]", " ",
                                     "Summarize drug discovery trends">>}
    \cup {Join(ls, <<"\n">>) : ls \in SeqsUpTo(ExtractorLines, MaxPlanLines)}

\* before the call: current_plan holds the plan text the extractor is given
InitExtract ==
    /\ pc = "Extract"
    /\ initial_query \in InitialQueries
    /\ current_query = initial_query
    /\ clarification_insights = <<>>
    /\ \E plan_text \in ExtractorPlans : current_plan = PlanStr(plan_text)
    /\ research_tasks = <<>>
    /\ research_outputs = <<>>
    /\ critiqued_documents = <<>>
    /\ synthesized_report = <<>>
    /\ error_message = <<>>
    /\ final_report = <<>>
    /\ outcome = "running"
    /\ result = NoResult
    /\ raised = ""
    /\ calls = <<>>
    /\ phases = <<>>

\* one call of extract_research_tasks_from_plan (lines 57-111); research_tasks
\* holds what it returned
ExtractCall ==
    /\ pc = "Extract"
    /\ research_tasks' = extract_research_tasks_from_plan(current_plan.text)
    /\ calls' = Append(calls, Call("extract_research_tasks_from_plan", current_plan.text,
                                   <<>>, <<>>))
    /\ pc' = "Extracted"
    /\ UNCHANGED <<initial_query, current_query, clarification_insights, current_plan,
                   research_outputs, critiqued_documents, synthesized_report, error_message,
                   final_report, outcome, result, raised, phases>>

NextExtract == ExtractCall

SpecExtract == InitExtract /\ [][NextExtract]_vars

Next ==
    \/ ClarificationPhase
    \/ PlanningPhase
    \/ ResearchPhaseBegin
    \/ ResearchTask
    \/ CritiqueTask
    \/ SynthesisPhase
    \/ WritingPhase
    \/ SaveAndReturn
    \/ HandleError

Spec == Init /\ [][Next]_vars

(***************************************************************************)
(* Properties                                                              *)
(***************************************************************************)
CallsOf(cap) == {i \in 1..Len(calls) : calls[i].cap = cap}

Entered(phase) == \E i \in 1..Len(phases) : phases[i] = phase

ResearchCritiqueSynthesisCalls ==
    CallsOf("perform_research_task") \cup CallsOf("critique_document")
    \cup CallsOf("synthesise_research")

\* C1: whatever the capabilities answer, a run that the persistence collaborator
\* does not fail ends by returning a result that carries the final report; no
\* exception leaves execute_research_pipeline.
C1_NeverRaises ==
    (pc = "Done" /\ raised # "IOError")
        => (outcome = "returned" /\ result.final_report = final_report /\ final_report # <<>>)

\* the phase a collaborator call belongs to
PhaseRank(cap) ==
    CASE cap \in {"generate_clarifying_questions", "get_clarification_responses"} -> 1
      [] cap \in {"generate_plan", "clarify_query"} -> 2
      [] cap \in {"extract_research_tasks_from_plan", "perform_research_task"} -> 3
      [] cap = "critique_document" -> 4
      [] cap = "synthesise_research" -> 5
      [] OTHER -> 6

HandlerRank(phase) ==
    CASE phase = "Clarify" -> 1
      [] phase = "Plan" -> 2
      [] phase = "Research" -> 3
      [] phase = "Critique" -> 4
      [] phase = "Synthesize" -> 5
      [] OTHER -> 6

\* C2: the calls of a run are ordered by phase (Clarify, Plan, Research, Critique,
\* Synthesize, Write): no call of a later phase precedes a call of an earlier
\* one, and the phase handlers are entered in strictly increasing order, each at
\* most once.  (The ranks of successive calls never decrease, the ranks of
\* successive handlers increase.)
C2_PhaseOrder ==
    /\ \A i \in 1..(Len(calls) - 1) :
          PhaseRank(calls[i].cap) <= PhaseRank(calls[i + 1].cap)
    /\ \A i \in 1..(Len(phases) - 1) :
          HandlerRank(phases[i]) < HandlerRank(phases[i + 1])

\* a complete successful run with two researched and two critiqued tasks
C2_Witness ==
    /\ pc = "Done" /\ outcome = "returned" /\ result.error = NoneValue
    /\ Cardinality(CallsOf("perform_research_task")) = 2
    /\ Cardinality(CallsOf("critique_document")) = 2
    /\ Cardinality(CallsOf("synthesise_research")) = 1

\* C3 (as stated): once the pipeline has halted, the only calls that follow are
\* one formatting call with the original query and the error message and then
\* one persistence call with the formatted document, and the result returned
\* carries the error message and the final report.
C3_HaltFormatsAndSaves ==
    [][pc = "Error" =>
          /\ calls' = calls \o
                 <<Call("format_report_as_markdown", initial_query, error_message, <<>>),
                   Call("save_report_to_file", final_report', initial_query, <<>>)>>
          /\ pc' = "Done"
          /\ outcome' = "returned" =>
                (result'.error = error_message /\ result'.final_report = final_report')]_vars

\* C3 (amended): as above, but the document handed to the persistence
\* collaborator is the formatted document in which every backslash-n sequence
\* has been replaced by a line break.
C3_HaltFormatsAndSavesUnescaped ==
    [][pc = "Error" =>
          /\ calls' = calls \o
                 <<Call("format_report_as_markdown", initial_query, error_message, <<>>),
                   Call("save_report_to_file", Replace(final_report', <<"\\n">>, <<"\n">>),
                        initial_query, <<>>)>>
          /\ pc' = "Done"
          /\ outcome' = "returned" =>
                (result'.error = error_message /\ result'.final_report = final_report')]_vars

\* a halted run whose formatted error document holds a backslash-n sequence
C3_Witness ==
    /\ pc = "Done" /\ Entered("Error") /\ outcome = "returned"
    /\ result.error = error_message /\ error_message # <<>>
    /\ Contains(final_report, <<"\\n">>)
    /\ calls[Len(calls)].cap = "save_report_to_file"
    /\ ~Contains(calls[Len(calls)].a1, <<"\\n">>)

\* C4: when the plan clarity check answers with questions that yield guidance
\* hints, the run goes on (it does not end in an exception) and every research
\* call receives the hints as its additional guidance.
C4_HintsReachResearch ==
    current_plan.isTuple =>
        /\ outcome # "raised"
        /\ \A i \in CallsOf("perform_research_task") : calls[i].a3 = current_plan.insights

\* C5: when the planning capability answers with an "Error:" text, the pipeline
\* halts with exactly that text as error message, and the clarity check, the task
\* extractor and the research, critique and synthesis capabilities are not invoked.
C5_PlanErrorHalts ==
    \A i \in CallsOf("generate_plan") :
        (Len(current_plan.text) > 0 /\ current_plan.text[1] = "Error:") =>
            /\ pc \in {"Error", "Done"}
            /\ error_message = current_plan.text
            /\ CallsOf("clarify_query") = {}
            /\ CallsOf("extract_research_tasks_from_plan") = {}
            /\ ResearchCritiqueSynthesisCalls = {}
            /\ outcome = "returned" => result.error = current_plan.text

\* a run halted by a failed plan, after its error report was returned
C5_Witness ==
    /\ pc = "Done" /\ outcome = "returned"
    /\ current_plan.text = ErrorPlan
    /\ result.error = ErrorPlan
    /\ Entered("Error")

EndsWith(s, t) == Len(s) >= Len(t) /\ SubSeq(s, Len(s) - Len(t) + 1, Len(s)) = t

\* C6: when every critique handed to the synthesis phase is a "Critique Skipped"
\* placeholder, the phase answers with the "Error:" all-critiques-skipped message
\* and the synthesis capability is not invoked.
C6_AllSkippedNoSynthesis ==
    (/\ Entered("Synthesize")
     /\ critiqued_documents # <<>>
     /\ \A k \in 1..Len(critiqued_documents) :
           critiqued_documents[k].critique[1] = "Critique Skipped for Task")
        => /\ CallsOf("synthesise_research") = {}
           /\ synthesized_report[1] = "Error:"
           /\ Contains(synthesized_report,
                  <<"All document critiques were skipped or resulted in errors. Cannot synthesise from: ">>)

\* C7: a synthesis result that is not an error ends with a "## Sources and
\* Citations" section: the numbered list of the merged citations, or the
\* no-citations notice when the merged set is empty.
C7_CitationsSectionAlways ==
    (Entered("Synthesize") /\ synthesized_report # <<>> /\ synthesized_report[1] # "Error:")
        => LET merged == MergeCitations(CollectCitations(critiqued_documents))
           IN EndsWith(synthesized_report,
                  <<"\n\n", "## ", "Sources", " and Citations", "\n\n">>
                  \o (IF merged # <<>> THEN RenderCitations(merged, 1)
                      ELSE <<"*No citations were found for this report.*", "\n">>))

\* the critiqued documents whose text is neither empty nor an "Error:" text
CritiquedByCapability ==
    {k \in 1..Len(critiqued_documents) :
        /\ critiqued_documents[k].original # <<>>
        /\ critiqued_documents[k].original[1] # "Error:"}

\* C8: a document whose text is empty or starts with "Error:" gets the "Critique
\* Skipped for Task" placeholder and no call of the critique capability; every
\* other document gets exactly one call, with its task and its text.
C8_CritiqueSkipRule ==
    /\ Cardinality(CallsOf("critique_document")) = Cardinality(CritiquedByCapability)
    /\ \A k \in 1..Len(critiqued_documents) :
          LET doc == critiqued_documents[k]
          IN IF k \in CritiquedByCapability
             THEN /\ doc.critique # <<>> => doc.critique[1] # "Critique Skipped for Task"
                  /\ \E i \in CallsOf("critique_document") :
                        calls[i].a1 = doc.task /\ calls[i].a2 = doc.original
             ELSE /\ doc.critique = critique_skipped_text(doc.task, doc.original)
                  /\ doc.critique[1] = "Critique Skipped for Task"

\* one document skipped for its "Error:" text, one skipped for its empty text
\* or critiqued by the capability
C8_Witness ==
    /\ Len(critiqued_documents) = 2
    /\ critiqued_documents[1].original # <<>>
    /\ critiqued_documents[1].original[1] = "Error:"
    /\ critiqued_documents[1].critique[1] = "Critique Skipped for Task"
    /\ 2 \in CritiquedByCapability
    /\ Cardinality(CallsOf("critique_document")) = 1

\* C9: the text handed to the synthesis capability holds, for every critiqued
\* document, its task description and either the skip notice or the text of its
\* critique; the capability is invoked at most once in a run.
C9_SynthesisPrompt ==
    /\ Cardinality(CallsOf("synthesise_research")) <= 1
    /\ \A i \in CallsOf("synthesise_research") :
          \A k \in 1..Len(critiqued_documents) :
             LET doc == critiqued_documents[k]
             IN /\ Contains(calls[i].a2, <<"Original Task: ">> \o doc.task)
                /\ IF doc.critique[1] = "Critique Skipped for Task"
                   THEN Contains(calls[i].a2, <<"Critique Status: Skipped or Errored">>)
                   ELSE Contains(calls[i].a2, doc.critique)

\* C10: when the task extractor finds no task in the plan, the pipeline halts
\* with the no-research-tasks message and the research, critique and synthesis
\* capabilities are not invoked.
C10_ZeroTasksHalts ==
    (CallsOf("extract_research_tasks_from_plan") # {} /\ research_tasks = <<>>)
        => /\ pc \in {"Error", "Done"}
           /\ error_message =
                  <<"No research tasks were identified/executed. Cannot proceed to critique.">>
           /\ ResearchCritiqueSynthesisCalls = {}
           /\ outcome = "returned" => result.error = error_message

\* a run halted for a plan without tasks, after its error report was returned
C10_Witness ==
    /\ pc = "Done" /\ outcome = "returned"
    /\ CallsOf("extract_research_tasks_from_plan") # {}
    /\ research_tasks = <<>>
    /\ current_plan.text = <<"Plan overview">>
    /\ result.error = NoTasksMessage

\* the texts with which SynthesiserAgent.synthesise_research reports a failure
SynthesisErrorTexts ==
    {SynthesisFailedText(o.text) : o \in {x \in SynthesisOutcomes : x.raised}}

\* C11: when the synthesis capability answers with an "Error:" text, the
\* pipeline halts into the error path with exactly that text as error message,
\* no citations section is appended to it, and the Writing phase is not entered.
C11_SynthesisErrorHalts ==
    (Entered("Synthesize") /\ StartsWith(synthesized_report, ErrorPrefix))
        => /\ pc \in {"Error", "Done"}
           /\ CallsOf("synthesise_research") # {} => synthesized_report \in SynthesisErrorTexts
           /\ error_message = synthesized_report
           /\ ~Contains(synthesized_report, CitationsHeading)
           /\ ~Entered("Write")
           /\ outcome = "returned" =>
                 (result.error = synthesized_report /\ Entered("Error"))

\* a run with citations whose synthesis capability failed, after its error
\* report was returned
C11_Witness ==
    /\ pc = "Done" /\ outcome = "returned"
    /\ CallsOf("synthesise_research") # {}
    /\ synthesized_report \in SynthesisErrorTexts
    /\ CollectCitations(critiqued_documents) # <<>>
    /\ result.error = synthesized_report
    /\ ~Entered("Write")

\* C12: the research capability is invoked once per extracted task, in
\* extraction order and without a web-search override; the research outputs
\* are, in the same order, one per task researched so far (duplicate task
\* descriptions included), and the loop is left only when every task has its
\* output.
C12_ResearchOncePerTaskInOrder ==
    LET research_calls ==
            SelectSeq(calls, LAMBDA c : c.cap = "perform_research_task")
    IN /\ Len(research_calls) = Len(research_outputs)
       /\ Len(research_outputs) <= Len(research_tasks)
       /\ \A i \in 1..Len(research_outputs) :
             /\ research_calls[i].a1 = research_tasks[i]
             /\ research_calls[i].a2 = NoneValue
             /\ research_outputs[i].task = research_tasks[i]
       /\ (pc \in {"Critique", "Synthesis", "Writing", "Save"} \/ Entered("Critique"))
             => Len(research_outputs) = Len(research_tasks)

\* two different tasks researched in extraction order
C12_WitnessInOrder ==
    /\ pc = "Critique"
    /\ Len(research_tasks) = 2 /\ research_tasks[1] # research_tasks[2]
    /\ Len(research_outputs) = 2
    /\ Cardinality(CallsOf("perform_research_task")) = 2

\* the same task description extracted twice and researched twice
C12_Witness ==
    /\ pc = "Critique"
    /\ Len(research_tasks) = 2 /\ research_tasks[1] = research_tasks[2]
    /\ Len(research_outputs) = 2
    /\ Cardinality(CallsOf("perform_research_task")) = 2

\* the texts a research output can hold for its task: the stripped answer of the
\* text generation, or the "Error:" failure text when the generation raised
ResearchTexts(task) ==
    {IF o.raised THEN ResearchFailedText(task, o.text) ELSE Strip(o.text) :
        o \in ResearchLLMOutcomes}

\* C13: a research task whose capability failed has a research output whose
\* text is the "Error:" failure text; the failure does not halt the run: every
\* step of the research loop adds one output and goes on to the next task or,
\* after the last task, to the critique phase.
C13_ResearchFailureDoesNotHalt ==
    [][pc = "ResearchTask" =>
          /\ Len(research_outputs') = Len(research_outputs) + 1
          /\ LET out == research_outputs'[Len(research_outputs')]
             IN /\ out.task = research_tasks[Len(research_outputs')]
                /\ out.content \in ResearchTexts(out.task)
          /\ pc' = IF Len(research_outputs') = Len(research_tasks)
                   THEN "Critique" ELSE "ResearchTask"
          /\ outcome' = "running" /\ error_message' = error_message]_vars

\* the first of two tasks failed, the second was researched, and the critique
\* phase has treated both
C13_Witness ==
    /\ Len(research_outputs) = 2
    /\ research_outputs[1].content = ResearchFailedText(research_tasks[1], <<"timeout">>)
    /\ research_outputs[2].content = <<"Paris is the capital.">>
    /\ Len(critiqued_documents) = 2
    /\ pc = "Synthesis"

\* C14: the citation list of every critiqued document is the citation list of
\* the research output it was built from (critique run, skipped or failed),
\* and no step changes the citation list of a critiqued document.
C14_CitationsCarriedUnchanged ==
    [][/\ Len(critiqued_documents') >= Len(critiqued_documents)
       /\ \A i \in 1..Len(critiqued_documents') :
             critiqued_documents'[i].citations = research_outputs'[i].citations
       /\ \A i \in 1..Len(critiqued_documents) :
             critiqued_documents'[i].citations = critiqued_documents[i].citations]_vars

\* a finished run with a skipped critique and a failed critique, both of
\* documents that carry citations
C14_Witness ==
    /\ pc = "Done" /\ Entered("Write")
    /\ Len(critiqued_documents) = 2
    /\ critiqued_documents[1].citations # <<>>
    /\ critiqued_documents[1].critique[1] = SkipMarker
    /\ critiqued_documents[2].citations # <<>>
    /\ critiqued_documents[2].critique = critique_failed_text(critiqued_documents[2].task, <<"timeout">>)
    /\ \A i \in 1..2 : critiqued_documents[i].citations = research_outputs[i].citations

\* the citations handed to the merge of the synthesis phase, and its result
InputCitations == CollectCitations(critiqued_documents)

MergedCitations == MergeCitations(InputCitations)

\* the synthesis phase has run the merge: its capability answered without
\* error and the critiqued documents carry at least one citation
MergeRan ==
    /\ Entered("Synthesize")
    /\ ~StartsWith(synthesized_report, ErrorPrefix)
    /\ InputCitations # <<>>

\* C15: cleaning an already cleaned URL returns it unchanged, for every URL
\* the merge has cleaned.
C15_NormalizeIdempotent ==
    MergeRan =>
        \A k \in 1..Len(InputCitations) :
            CleanUrl(CleanUrl(InputCitations[k].url)) = CleanUrl(InputCitations[k].url)

\* the parameters of a URL: the "&"-separated pieces after its first "?"
UrlParams(url) == Split(SubSeq(url, Find(url, <<"?">>) + 1, Len(url)), <<"&">>)

UrlBase(url) == SubSeq(url, 1, Find(url, <<"?">>) - 1)

HasTrackingName(param) ==
    \/ (param # <<>> /\ param[1] = "utm_")
    \/ (Len(param) >= 2 /\ param[1] = "amp;" /\ param[2] = "utm_")

\* C16: for every URL with query parameters, the cleaned URL is the URL without
\* its parameters whose name starts with utm_ or amp;utm_: the other
\* parameters are kept in their order, and the "?" is kept only when a
\* parameter remains.
C16_TrackingParamsRemoved ==
    MergeRan =>
        \A k \in 1..Len(InputCitations) :
            LET url == InputCitations[k].url
                kept == SelectSeq(UrlParams(url), LAMBDA param : ~HasTrackingName(param))
            IN Contains(url, <<"?">>) =>
                  CleanUrl(url) = UrlBase(url) \o (IF kept # <<>>
                                                   THEN <<"?">> \o Join(kept, <<"&">>)
                                                   ELSE <<>>)

\* the first input citation whose cleaned URL is url
FirstWithUrl(url) ==
    CHOOSE k \in 1..Len(InputCitations) :
        /\ CleanUrl(InputCitations[k].url) = url
        /\ \A j \in 1..(k - 1) : CleanUrl(InputCitations[j].url) # url

IsGenericTitle(title) ==
    title = <<>> \/ Lower(title) \in {<<"source">>, <<"untitled">>, <<"untitled", " ", "source">>}

\* C17: no two entries of the merged list have the same URL; for every cleaned
\* URL that several input citations share exactly one entry has it, and the
\* title of that entry is the title of the first input citation with that
\* cleaned URL, unless that title is empty or generic.
C17_OneEntryPerUrl ==
    MergeRan =>
        /\ \A i, j \in 1..Len(MergedCitations) :
              i # j => MergedCitations[i].url # MergedCitations[j].url
        /\ \A k \in 1..Len(InputCitations) :
              LET url == CleanUrl(InputCitations[k].url)
                  first == InputCitations[FirstWithUrl(url)]
                  entries == {i \in 1..Len(MergedCitations) : MergedCitations[i].url = url}
                  sharing == {j \in 1..Len(InputCitations) :
                                 CleanUrl(InputCitations[j].url) = url}
              IN Cardinality(sharing) > 1 =>
                    /\ Cardinality(entries) = 1
                    /\ \A i \in entries :
                          IsGenericTitle(first.title) \/ MergedCitations[i].title = first.title

\* C18: for every input citation, the one with an empty URL included, the
\* merged list holds an entry whose URL is the cleaned URL of that citation.
C18_NoCitationDropped ==
    MergeRan =>
        \A k \in 1..Len(InputCitations) :
            \E i \in 1..Len(MergedCitations) :
                MergedCitations[i].url = CleanUrl(InputCitations[k].url)

\* the part of a URL after its scheme
UrlAfterScheme(url) ==
    IF Contains(url, <<":", "/", "/">>)
    THEN SubSeq(url, Find(url, <<":", "/", "/">>) + 3, Len(url))
    ELSE url

\* the host of a URL: what follows the scheme, up to the first "/" or "?"
UrlHost(url) ==
    LET rest == UrlAfterScheme(url)
        ends == {i \in 1..Len(rest) : rest[i] \in {"/", "?"}}
    IN IF ends = {} THEN rest
       ELSE SubSeq(rest, 1, (CHOOSE i \in ends : \A j \in ends : i <= j) - 1)

\* the path of a URL: what follows the "/" after the host, up to the "?"
UrlPath(url) ==
    LET rest == UrlAfterScheme(url)
        after == SubSeq(rest, Len(UrlHost(url)) + 1, Len(rest))
    IN IF after # <<>> /\ after[1] = "/"
       THEN Split(Tail(after), <<"?">>)[1]
       ELSE <<>>

\* C19: an entry of the merged list whose incoming title is empty or generic
\* is titled "Article from <host>: <path>" when its URL has a path and
\* "Source: <host>" when it has none; any other title is kept as it came.
C19_GenericTitleReplaced ==
    MergeRan =>
        \A i \in 1..Len(MergedCitations) :
            LET url == MergedCitations[i].url
                incoming == InputCitations[FirstWithUrl(url)].title
            IN MergedCitations[i].title =
                  IF IsGenericTitle(incoming)
                  THEN IF UrlPath(url) # <<>>
                       THEN <<"Article from ">> \o UrlHost(url) \o <<": ">> \o UrlPath(url)
                       ELSE <<"Source", ": ">> \o UrlHost(url)
                  ELSE incoming

\* C20: the merged list is in ascending order of lower-cased title, entries
\* with equal lower-cased titles are in the order of their first occurrence in
\* the input, and the numbered list at the end of the report is in that order.
C20_SortedByTitleStable ==
    MergeRan =>
        LET merged == MergedCitations
            key == [i \in 1..Len(merged) |-> Lower(merged[i].title)]
            first == [i \in 1..Len(merged) |-> FirstWithUrl(merged[i].url)]
        IN /\ \A i, j \in 1..Len(merged) :
                 i < j => /\ ~StrLess(key[j], key[i])
                          /\ key[i] = key[j] => first[i] < first[j]
           /\ merged # <<>> =>
                 EndsWith(synthesized_report, <<"\n\n">> \o RenderCitations(merged, 1))

\* two citations that the sort has exchanged: the second of the input is the
\* first of the merged list and of the numbered list
C20_Witness ==
    /\ MergeRan /\ pc = "Writing"
    /\ Len(InputCitations) = 2 /\ Len(MergedCitations) = 2
    /\ MergedCitations[1].url = CleanUrl(InputCitations[2].url)
    /\ StrLess(Lower(MergedCitations[1].title), Lower(MergedCitations[2].title))
    /\ EndsWith(synthesized_report, <<"\n\n">> \o RenderCitations(MergedCitations, 1))

\* two citations whose titles differ in case only, kept in input order
C20_WitnessTie ==
    /\ MergeRan /\ pc = "Writing"
    /\ Len(MergedCitations) = 2
    /\ MergedCitations[1].title = <<"alpha">> /\ MergedCitations[2].title = <<"Alpha">>
    /\ MergedCitations[1].url = CleanUrl(InputCitations[1].url)

\* C28: when the clarifying-questions capability answers with an "Error:" text
\* the user is not asked and the run goes on with the original query; otherwise
\* the query is the original query when the answers are blank and the original
\* query followed by the clarification block and the answers when they are
\* not; the planning capability is invoked with exactly that query.
C28_ClarificationQuery ==
    Entered("Clarify") =>
        /\ Cardinality(CallsOf("generate_clarifying_questions")) = 1
        /\ calls[1] = Call("generate_clarifying_questions", initial_query, <<>>, <<>>)
        /\ IF CallsOf("get_clarification_responses") = {}
           THEN current_query = initial_query
           ELSE /\ CallsOf("get_clarification_responses") = {2}
                /\ ~StartsWith(calls[2].a1, ErrorPrefix)
                /\ current_query \in
                      {initial_query} \cup
                      {initial_query
                         \o <<"\n\nAdditional clarifications provided by user:\n">> \o answers :
                            answers \in {a \in UserAnswers : Strip(a) # <<>>}}
        /\ pc \notin {"Clarification", "Planning"} =>
              \E i \in CallsOf("generate_plan") : calls[i].a1 = current_query
        /\ pc = "Planning" => outcome = "running"

\* the clarifier failed, the user was not asked, and the plan was made for the
\* original query
C28_Witness ==
    /\ pc = "Research"
    /\ CallsOf("get_clarification_responses") = {}
    /\ calls[2] = Call("generate_plan", initial_query, <<>>, <<>>)

\* the user answered, and the plan was made for the query with the
\* clarification block
C28_WitnessAnswered ==
    /\ pc = "Research"
    /\ CallsOf("get_clarification_responses") = {2}
    /\ current_query = initial_query \o ClarificationBlock \o <<"Europe">>
    /\ calls[3] = Call("generate_plan", current_query, <<>>, <<>>)

\* C29: the critiqued documents are, in order, one per research output treated
\* so far, with its task and its text, whether the critique ran, was skipped
\* or failed; after the critique phase there is one per research output, and
\* the pipeline never halts with the no-documents-critiqued message.
C29_OneCritiquePerResult ==
    /\ Len(critiqued_documents) <= Len(research_outputs)
    /\ \A i \in 1..Len(critiqued_documents) :
          /\ critiqued_documents[i].task = research_outputs[i].task
          /\ critiqued_documents[i].original = research_outputs[i].content
    /\ (Entered("Critique") /\ pc # "Critique")
          => Len(critiqued_documents) = Len(research_outputs)
    /\ error_message #
          <<"No documents were successfully critiqued. Cannot proceed to synthesis.">>

\* two research outputs, both with a skipped critique, have reached the
\* synthesis phase
C29_Witness ==
    /\ pc = "Synthesis"
    /\ Len(research_outputs) = 2 /\ Len(critiqued_documents) = 2
    /\ \A k \in 1..2 : critiqued_documents[k].critique[1] = SkipMarker

\* the citations of the research outputs whose text is not an "Error:" text
RECURSIVE CitationsOfSucceeded(_)
CitationsOfSucceeded(outputs) ==
    IF outputs = <<>> THEN <<>>
    ELSE (IF StartsWith(Head(outputs).content, ErrorPrefix) THEN <<>>
          ELSE Head(outputs).citations) \o CitationsOfSucceeded(Tail(outputs))

CitationsSectionOf(text) == SubSeq(text, Find(text, CitationsHeading), Len(text))

\* the writing phase has returned a document
Written == Entered("Write")

\* the document is the fallback document of a formatting failure
IsFallbackDocument == Contains(final_report, <<"## Error During Report Formatting">>)

\* C21: for every synthesized text that holds the citations heading, the
\* document returned by the writing phase ends with the citations section of
\* that text, everything from the first heading to the end, token for token,
\* whatever the formatting capability answered and whether or not it raised.
C21_CitationsSectionPreserved ==
    (Written /\ Contains(synthesized_report, CitationsHeading))
        => EndsWith(final_report, CitationsSectionOf(synthesized_report))

\* the number of reference-style headings in a text: "## References",
\* "## Sources" (which also begins "## Sources and Citations") and
\* "## Bibliography"
ReferenceHeadingCount(text) ==
    Cardinality({i \in 1..(Len(text) - 1) :
                    /\ text[i] = "## "
                    /\ text[i + 1] \in {"References", "Sources", "Bibliography"}})

\* C22: when the synthesized text holds the citations heading and the
\* formatting succeeds, the returned document holds no reference-style heading
\* that the formatting capability introduced: it has no more reference-style
\* headings than the citations section of the synthesized text.
C22_NoFormatterReferenceHeading ==
    (Written /\ Contains(synthesized_report, CitationsHeading) /\ ~IsFallbackDocument)
        => ReferenceHeadingCount(final_report)
              <= ReferenceHeadingCount(CitationsSectionOf(synthesized_report))

\* the narrative of a synthesized text: the text before its citations section
NarrativeOf(text) ==
    IF Contains(text, CitationsHeading)
    THEN Strip(SubSeq(text, 1, Find(text, CitationsHeading) - 1))
    ELSE text

\* the fallback document the specification describes
FallbackDocument(details) ==
    <<"# Report for: ">> \o initial_query
    \o <<"\n\n", "## Error During Report Formatting", "\n\n",
         "An error occurred while formatting the report: ">> \o details
    \o <<"\n\n", "**Raw Synthesized Text (if available):**", "\n", "<fence>", "\n">>
    \o NarrativeOf(synthesized_report) \o <<"\n", "<fence>">>
    \o (IF Contains(synthesized_report, CitationsHeading)
        THEN <<"\n\n">> \o CitationsSectionOf(synthesized_report) ELSE <<>>)

\* C23: when the formatting capability raises, the writing phase neither halts
\* nor raises: it returns the fallback document, a heading with the query, the
\* error notice with the failure detail, the raw narrative in a literal block,
\* and the citations section of the synthesized text when it has one.
C23_FallbackDocument ==
    (Written /\ IsFallbackDocument) =>
        /\ pc = "Save" /\ outcome = "running"
        /\ \E fmt \in WriterAnswers : fmt.raised /\ final_report = FallbackDocument(fmt.text)

\* C23 for the synthesized texts with at most one citations heading
C23_FallbackDocumentOneHeading ==
    (Written /\ IsFallbackDocument
       /\ Len(Split(synthesized_report, CitationsHeading)) <= 2) =>
        /\ pc = "Save" /\ outcome = "running"
        /\ \E fmt \in WriterAnswers : fmt.raised /\ final_report = FallbackDocument(fmt.text)

\* the extractor has returned
Extracted == pc = "Extracted"

\* the lines of the plan text, trimmed
TrimmedLines(plan_text) ==
    LET plan_lines == Split(Strip(plan_text), <<"\n">>)
    IN [k \in 1..Len(plan_lines) |-> Strip(plan_lines[k])]

\* the qualifying lines of the plan text: those that hold the tag
QualifyingLines(plan_text) ==
    SelectSeq(TrimmedLines(plan_text), LAMBDA line : Contains(line, <<"[ResearchAgent]">>))

\* the text after "Search for:" between a quote and the next quote of the same
\* kind, for the first "Search for:" of the line that is followed by one
QuotedSearchText(line) ==
    LET opens == {i \in 1..Len(line) :
                     /\ IsSearchForI(line[i])
                     /\ SkipWS(line, i + 1) <= Len(line)
                     /\ line[SkipWS(line, i + 1)] \in Quotes
                     /\ \E n \in (SkipWS(line, i + 1) + 1)..Len(line) :
                           line[n] = line[SkipWS(line, i + 1)]}
    IN IF opens = {} THEN NoMatch
       ELSE LET i == CHOOSE x \in opens : \A y \in opens : x <= y
                m == SkipWS(line, i + 1)
                n == CHOOSE x \in (m + 1)..Len(line) :
                        /\ line[x] = line[m]
                        /\ \A y \in (m + 1)..(x - 1) : line[y] # line[m]
            IN [ok |-> TRUE, val |-> SubSeq(line, m + 1, n - 1)]

\* the trimmed remainder of the line after the tag
RemainderAfterTag(line) ==
    Strip(SubSeq(line, Find(line, <<"[ResearchAgent]">>) + 1, Len(line)))

\* the task the specification gives a qualifying line
DescribedTask(line) ==
    IF QuotedSearchText(line).ok THEN QuotedSearchText(line).val ELSE RemainderAfterTag(line)

\* the qualifying lines whose described task is not empty
ContributingLines(plan_text) ==
    SelectSeq(QualifyingLines(plan_text), LAMBDA line : DescribedTask(line) # <<>>)

\* the plan text is neither empty nor an error text, and the extractor returned
\* one task per contributing line
TasksAligned ==
    /\ Extracted
    /\ current_plan.text # <<>> /\ ~StartsWith(current_plan.text, ErrorPrefix)
    /\ Len(research_tasks) = Len(ContributingLines(current_plan.text))

\* C24: for every qualifying line without a quoted "Search for:" pattern the
\* task is the trimmed remainder of the line after the tag, tag and numbering
\* removed, whatever precedes the tag.
C24_TaskIsRemainderAfterTag ==
    TasksAligned =>
        \A k \in 1..Len(research_tasks) :
            LET line == ContributingLines(current_plan.text)[k]
            IN ~QuotedSearchText(line).ok => research_tasks[k] = RemainderAfterTag(line)

\* C25: for every qualifying line with a "Search for:" followed by a quoted
\* text, in any case and with single or double quotes, the task is exactly the
\* quoted text.
C25_TaskIsQuotedText ==
    TasksAligned =>
        \A k \in 1..Len(research_tasks) :
            LET line == ContributingLines(current_plan.text)[k]
            IN QuotedSearchText(line).ok => research_tasks[k] = QuotedSearchText(line).val

\* C26: the tasks are in line order, every qualifying line contributes at most
\* one task, and no task is empty: the tasks can be assigned, in order, to
\* distinct qualifying lines of increasing position that hold their text.
C26_TasksInLineOrder ==
    Extracted =>
        LET lines == QualifyingLines(current_plan.text)
        IN /\ \A k \in 1..Len(research_tasks) : research_tasks[k] # <<>>
           /\ \E f \in [1..Len(research_tasks) -> 1..Len(lines)] :
                 /\ \A k \in 1..(Len(research_tasks) - 1) : f[k] < f[k + 1]
                 /\ \A k \in 1..Len(research_tasks) : Contains(lines[f[k]], research_tasks[k])

\* a plan of two qualifying lines, the first with nothing after the tag: one
\* task, from the second line
C26_Witness ==
    /\ Extracted
    /\ Len(QualifyingLines(current_plan.text)) = 2
    /\ RemainderAfterTag(QualifyingLines(current_plan.text)[1]) = <<>>
    /\ research_tasks = <<<<"Summarize drug discovery trends">>>>

\* two qualifying lines, two different tasks, in line order
C26_WitnessTwoTasks ==
    /\ Extracted
    /\ research_tasks = << <<"capital of France">>, <<"Summarize drug discovery trends">> >>

\* C27: the extractor returns an empty list, and raises nothing, when the plan
\* text is empty, when it begins with "Error:", and when none of its lines
\* holds the tag.
C27_NoTasksWithoutTaggedLine ==
    (/\ Extracted
     /\ \/ current_plan.text = <<>>
        \/ StartsWith(current_plan.text, ErrorPrefix)
        \/ ~Contains(current_plan.text, <<"[ResearchAgent]">>))
        => (research_tasks = <<>> /\ outcome = "running" /\ raised = "")

\* an error text followed by a tagged line gave no task
C27_Witness ==
    /\ Extracted
    /\ StartsWith(current_plan.text, ErrorPrefix)
    /\ Contains(current_plan.text, <<"[ResearchAgent]">>)
    /\ research_tasks = <<>>

\* a plan text of two lines without the tag gave no task
C27_WitnessNoTag ==
    /\ Extracted
    /\ Len(TrimmedLines(current_plan.text)) = 2
    /\ QualifyingLines(current_plan.text) = <<>>
    /\ current_plan.text # <<>>
    /\ research_tasks = <<>>

====
